---- MODULE Spec2Model ----
(***************************************************************************)
(* Exit Vector: the physics engine (src/js/physics.js) driven through its  *)
(* public interface, with the deferred deactivation of exited balls as a   *)
(* queue of pending timer callbacks.                                       *)
(*                                                                         *)
(* Numbers.  The program computes in IEEE doubles.  The model computes in  *)
(* fixed point: one unit is 1/Scale of a pixel (of a pixel per frame for   *)
(* velocities), and every arithmetic result is rounded to the nearest      *)
(* unit, as a double operation is rounded to the nearest double.           *)
(***************************************************************************)
EXTENDS Integers, Sequences, FiniteSets, TLC

\* ------------------------------------------------------------------ bounds
\* update() calls made since construction
MaxFrames == 3
\* deferred deactivations that may be pending when init or reset is called
MaxStale == 1
\* distinct values of Date.now() that seed a maze
MaxNows == 8
\* calls made on one SeededRandom object
MaxDraws == 4
\* levels started since the page was loaded
MaxStarts == 2
\* frames of one level in which the game loop calls update()
MaxTicks == 28
\* calls of update() on a level left to the base gravity
MaxDrop == 8

\* ------------------------------------------------------- program constants
\* fixed-point units per pixel: one unit is PHYSICS_CONFIG.velocityThreshold, 0.01
Scale == 100
\* PHYSICS_CONFIG, in units (factors in 1/Scale)
GravityMultiplier == 80
Friction == 97
DefaultBallRadius == 1000
MaxVelocity == 1200
BounceFactor == 30
VelocityThreshold == 1
\* update(): const baseGravityY = 0.12
BaseGravityY == 12
\* VISUAL_CONFIG.trailLength
TrailLength == 6
\* _checkExitZones: "Missed all exit zones, minimum score"
MissScore == 50

\* --------------------------------------------------------------- arithmetic
Abs(a) == IF a < 0 THEN -a ELSE a

Min(a, b) == IF a < b THEN a ELSE b

Max(a, b) == IF a > b THEN a ELSE b

\* a / b rounded to the nearest integer (b > 0)
RDiv(a, b) == IF a >= 0 THEN (2 * a + b) \div (2 * b) ELSE -((2 * (-a) + b) \div (2 * b))

\* a * c for a factor c given in 1/Scale
Mul(a, c) == RDiv(a * c, Scale)

\* the number of binary digits of n
Bits(n) == Cardinality({ i \in 0 .. 30 : 2 ^ i <= n })

RECURSIVE Newton(_, _)
Newton(n, x) == LET y == (x + n \div x) \div 2 IN IF y >= x THEN x ELSE Newton(n, y)

\* floor of the square root, by Newton's iteration from a power of two above it
FloorSqrt(n) == IF n < 2 THEN n ELSE Newton(n, 2 ^ ((Bits(n) + 1) \div 2))

\* Math.sqrt, rounded to the nearest unit
Sqrt(n) == LET r == FloorSqrt(n) IN IF n - r * r > r THEN r + 1 ELSE r

\* ------------------------------------------------------------------- inputs
Rect(x, y, w, h) == [x |-> x, y |-> y, width |-> w, height |-> h]

Zone(x, w, s) == [x |-> x, width |-> w, score |-> s]

\* the five bands MazeGenerator._buildExitZones makes for a maze 8000 units wide
FiveZones == << Zone(0, 1600, 500), Zone(1600, 1600, 100), Zone(3200, 1600, 1000),
                Zone(4800, 1600, 0), Zone(6400, 1600, 250) >>

\* argument lists PhysicsEngine.init is called with.  radius 0 stands for null.
\*   1: one ball on the border of the first two zones, a wall cell to its right
\*   2: two balls, default radius, zones that cover only the left of the maze
Levels ==
  << [ spawnPositions |-> << <<1600, 4200>> >>,
       walls          |-> << Rect(4800, 3200, 1600, 1600) >>,
       exitZones      |-> FiveZones,
       mazeWidth      |-> 8000,
       mazeHeight     |-> 4800,
       ballRadius     |-> 500 ],
     [ spawnPositions |-> << <<2400, 4700>>, <<6000, 3000>> >>,
       walls          |-> << Rect(3200, 1600, 1600, 1600) >>,
       exitZones      |-> << Zone(0, 1600, 500), Zone(1600, 1600, 100) >>,
       mazeWidth      |-> 8000,
       mazeHeight     |-> 4800,
       ballRadius     |-> 0 ] >>

\* vectors setGravity is called with, in units (the constructor's is <<0, 0>>)
Gravities == { <<0, 2000>>, <<-2000, 2000>> }

\* vectors the game loop passes to setGravity while a level is played: the device
\* tilted away from the player, twice with a lean to the left, and towards the player
Tilts == { << -1000, -2000 >>, << -500, -1000 >>, << 0, 1000 >> }

\* ids of Ball objects
BallIds == 1 .. (MaxStale + 3)

VARIABLES
  heap,        \* the Ball objects that are still referenced: id -> fields
  balls,       \* PhysicsEngine.balls: ids, in order
  gravity,     \* PhysicsEngine.gravity
  paused,      \* PhysicsEngine.paused
  score,       \* PhysicsEngine.score
  walls,       \* PhysicsEngine.walls
  exitZones,   \* PhysicsEngine.exitZones
  mazeWidth,   \* PhysicsEngine.mazeWidth
  mazeHeight,  \* PhysicsEngine.mazeHeight
  ballRadius,  \* PhysicsEngine.ballRadius (0: not set yet)
  onBallExit,  \* whether a ball-exit callback is registered
  onWallHit,   \* whether a wall-hit callback is registered
  timers,      \* pending setTimeout callbacks, oldest first: the ball each closes over
  events,      \* notifications delivered by the last operation, in order
  lastOp,      \* the last operation called ("set": one of the four setters)
  frames,      \* update() calls so far
  maze,        \* the MazeGenerator object: its fields
  mazeArgs,    \* the arguments of the last MazeGenerator.init call, and its Date.now()
  game,        \* the Game object: its fields
  rng,         \* a SeededRandom object, and what its last call returned
  controls     \* ControlsManager: the tilts the player gives during the level

vars == << heap, balls, gravity, paused, score, walls, exitZones, mazeWidth,
           mazeHeight, ballRadius, onBallExit, onWallHit, timers, events, lastOp, frames,
           maze, mazeArgs, game, rng, controls >>

generator == << maze, mazeArgs >>

client == << game, rng, controls >>

geometry == << walls, exitZones, mazeWidth, mazeHeight, ballRadius >>

callbacks == << onBallExit, onWallHit >>

\* ------------------------------------------------------------------ helpers
Range(s) == { s[i] : i \in 1 .. Len(s) }

RECURSIVE SumSeq(_)
SumSeq(s) == IF s = << >> THEN 0 ELSE Head(s) + SumSeq(Tail(s))

\* the first n ids of BallIds that no pending timer still refers to
RECURSIVE FreshIds(_, _)
FreshIds(n, used) ==
  IF n = 0 THEN << >>
  ELSE LET id == CHOOSE i \in BallIds \ used : \A j \in BallIds \ used : i <= j
       IN << id >> \o FreshIds(n - 1, used \cup {id})

\* the ball a delivered ball-exit notification carries
EventBalls(ev) == { ev[i].ball : i \in { j \in 1 .. Len(ev) : ev[j].type = "ballExit" } }

\* garbage collection: only objects the engine, a timer closure or a delivered
\* notification still refers to are kept
Collect(h, bs, ts, ev) ==
  [ id \in (DOMAIN h) \cap (Range(bs) \cup Range(ts) \cup EventBalls(ev)) |-> h[id] ]

\* --------------------------------------------------------------------- Ball
\* Ball.constructor
Ball(x, y, index, radius) ==
  [ x |-> x, y |-> y, vx |-> 0, vy |-> 0,
    radius |-> IF radius # 0 THEN radius ELSE DefaultBallRadius,
    index |-> index, active |-> TRUE, exited |-> FALSE, score |-> 0, trail |-> << >> ]

SpeedSq(b) == b.vx * b.vx + b.vy * b.vy

\* Ball.getSpeed
getSpeed(b) == Sqrt(SpeedSq(b))

\* Ball.updateTrail with push and shift: the position goes to the back of the trail
updateTrail_pushBack(b) ==
  LET t == b.trail \o << << b.x, b.y >> >>
  IN [b EXCEPT !.trail = IF Len(t) > TrailLength
                         THEN SubSeq(t, Len(t) - TrailLength + 1, Len(t)) ELSE t]

\* Ball.updateTrail: unshift the position, pop while longer than trailLength
updateTrail(b) ==
  LET t == << << b.x, b.y >> >> \o b.trail
  IN [b EXCEPT !.trail = IF Len(t) > TrailLength THEN SubSeq(t, 1, TrailLength) ELSE t]

\* ------------------------------------------------------------ PhysicsEngine
\* update() without the base gravity: player controls and friction only
applyForces_tiltOnly(b, g) ==
  LET vx2 == b.vx + Mul(g[1], GravityMultiplier)
      vy2 == b.vy + Mul(g[2], GravityMultiplier)
  IN [b EXCEPT !.vx = Mul(vx2, Friction), !.vy = Mul(vy2, Friction)]

\* update(), lines 196-206: base gravity, player controls (g is this.gravity), friction
applyForces(b, g) ==
  LET vy1 == b.vy + BaseGravityY
      vx2 == b.vx + Mul(g[1], GravityMultiplier)
      vy2 == vy1 + Mul(g[2], GravityMultiplier)
  IN [b EXCEPT !.vx = Mul(vx2, Friction), !.vy = Mul(vy2, Friction)]

\* update() without the clamp
clampVelocity_none(b) == b

\* update(), lines 208-214: rescale to maxVelocity when faster.  The speed is taken
\* to a tenth of a unit, so that the quotient maxVelocity / speed is not the
\* dominant rounding error.
clampVelocity(b) ==
  IF SpeedSq(b) > MaxVelocity * MaxVelocity
  THEN LET speed10 == Sqrt(100 * SpeedSq(b))
       IN [b EXCEPT !.vx = RDiv(b.vx * MaxVelocity * 10, speed10),
                    !.vy = RDiv(b.vy * MaxVelocity * 10, speed10)]
  ELSE b

\* update(), lines 216-218
applyThreshold(b) ==
  [b EXCEPT !.vx = IF Abs(b.vx) < VelocityThreshold THEN 0 ELSE b.vx,
            !.vy = IF Abs(b.vy) < VelocityThreshold THEN 0 ELSE b.vy]

\* update(), lines 220-222
integrate(b) == [b EXCEPT !.x = b.x + b.vx, !.y = b.y + b.vy]

\* _handleWallCollisions, the body of the loop for one wall.
\* st = [ball, hits]: the ball and the wall-hit intensities delivered so far.
\* A wall a radius or more away along one axis is not touched: its squared distance,
\* which may exceed the integers of the model checker, is not computed.
collideWall(st, wall, prevX, prevY) ==
  LET b        == st.ball
      closestX == Max(wall.x, Min(b.x, wall.x + wall.width))
      closestY == Max(wall.y, Min(b.y, wall.y + wall.height))
      distX    == b.x - closestX
      distY    == b.y - closestY
      distSq   == distX * distX + distY * distY
      distance == Sqrt(distSq)
      overlap  == b.radius - distance
      dot      == RDiv(b.vx * distX + b.vy * distY, distance)
      pushed   == [b EXCEPT
                     !.x  = b.x + RDiv(distX * overlap, distance),
                     !.y  = b.y + RDiv(distY * overlap, distance),
                     !.vx = b.vx - RDiv(2 * dot * distX * (Scale - BounceFactor), distance * Scale),
                     !.vy = b.vy - RDiv(2 * dot * distY * (Scale - BounceFactor), distance * Scale)]
      reverted == [b EXCEPT !.x = prevX, !.y = prevY,
                            !.vx = Mul(b.vx, -BounceFactor), !.vy = Mul(b.vy, -BounceFactor)]
      after    == IF distSq > 0 THEN pushed ELSE reverted
  IN IF Abs(distX) < b.radius /\ Abs(distY) < b.radius /\ distSq < b.radius * b.radius
     THEN [ ball |-> after,
            hits |-> IF onWallHit
                     THEN Append(st.hits, [type |-> "wallHit",
                                           intensity |-> Min(RDiv(getSpeed(after), 10), Scale)])
                     ELSE st.hits ]
     ELSE st

\* _handleWallCollisions, the loop over walls[lo .. hi] in list order: the first half
\* of the range, then the second half from the ball the first half leaves
RECURSIVE handleWallCollisionsFrom(_, _, _, _, _)
handleWallCollisionsFrom(st, lo, hi, prevX, prevY) ==
  IF lo < hi
  THEN CHOOSE r \in { handleWallCollisionsFrom(half, (lo + hi) \div 2 + 1, hi, prevX, prevY) :
                        half \in { handleWallCollisionsFrom(st, lo, (lo + hi) \div 2, prevX, prevY) } } : TRUE
  ELSE IF lo = hi THEN collideWall(st, walls[lo], prevX, prevY) ELSE st

\* _handleWallCollisions: every wall, in list order
handleWallCollisions(b, prevX, prevY) ==
  handleWallCollisionsFrom([ball |-> b, hits |-> << >>], 1, Len(walls), prevX, prevY)

\* _handleBoundaries without the right boundary
handleBoundaries_leftAndTop(b) ==
  LET l == IF b.x - b.radius < 0
           THEN [b EXCEPT !.x = b.radius, !.vx = Mul(Abs(b.vx), BounceFactor)] ELSE b
  IN IF l.y - l.radius < 0
     THEN [l EXCEPT !.y = l.radius, !.vy = Mul(Abs(l.vy), BounceFactor)] ELSE l

\* _handleBoundaries: left, right, top; nothing at the bottom
handleBoundaries(b) ==
  LET l == IF b.x - b.radius < 0
           THEN [b EXCEPT !.x = b.radius, !.vx = Mul(Abs(b.vx), BounceFactor)] ELSE b
      r == IF l.x + l.radius > mazeWidth
           THEN [l EXCEPT !.x = mazeWidth - l.radius, !.vx = Mul(-Abs(l.vx), BounceFactor)] ELSE l
  IN IF r.y - r.radius < 0
     THEN [r EXCEPT !.y = r.radius, !.vy = Mul(Abs(r.vy), BounceFactor)] ELSE r

\* the zone test with a half-open span, x < zone.x + zone.width
RECURSIVE zoneScoreHalfOpen(_, _)
zoneScoreHalfOpen(x, k) ==
  IF k > Len(exitZones) THEN MissScore
  ELSE IF x >= exitZones[k].x /\ x < exitZones[k].x + exitZones[k].width
       THEN exitZones[k].score
       ELSE zoneScoreHalfOpen(x, k + 1)

exitScore_halfOpen(x) == zoneScoreHalfOpen(x, 1)

\* _checkExitZones, lines 326-341: the first zone whose closed span holds x, else 50
RECURSIVE zoneScoreFrom(_, _)
zoneScoreFrom(x, k) ==
  IF k > Len(exitZones) THEN MissScore
  ELSE IF x >= exitZones[k].x /\ x <= exitZones[k].x + exitZones[k].width
       THEN exitZones[k].score
       ELSE zoneScoreFrom(x, k + 1)

exitScore(x) == zoneScoreFrom(x, 1)

\* _checkExitZones without  if (ball.exited) return
checkExitZones_rescore(w, id, b) ==
  IF b.y > mazeHeight
  THEN LET s == exitScore(b.x)
       IN [w EXCEPT !.heap[id] = [b EXCEPT !.exited = TRUE, !.score = s],
                    !.score    = w.score + s,
                    !.timers   = IF b.exited THEN w.timers ELSE Append(w.timers, id)]
  ELSE [w EXCEPT !.heap[id] = b]

\* _checkExitZones.  w = [heap, score, timers, events, gravity] is the engine while
\* update() runs; b is the ball after the boundary step
checkExitZones(w, id, b) ==
  IF b.exited THEN [w EXCEPT !.heap[id] = b]
  ELSE IF b.y > mazeHeight
       THEN LET s == exitScore(b.x)
            IN [w EXCEPT !.heap[id] = [b EXCEPT !.exited = TRUE, !.score = s],
                         !.score    = w.score + s,
                         !.timers   = Append(w.timers, id)]
       ELSE [w EXCEPT !.heap[id] = b]

\* the loop body of update() without  if (!ball.active) continue
updateBall_everyBall(w, id) ==
  LET b0 == w.heap[id]
  IN CHOOSE r \in
       { [w1 EXCEPT !.heap[id] = updateTrail(w1.heap[id])] :
           w1 \in { checkExitZones([w EXCEPT !.events = w.events \o hit.hits],
                                   id, handleBoundaries(hit.ball)) :
                      hit \in { handleWallCollisions(moved, b0.x, b0.y) :
                                moved \in { integrate(applyThreshold(clampVelocity(
                                               applyForces(b0, w.gravity)))) } } } } : TRUE

\* update(), the body of the loop for one ball, step after step: forces and
\* position, walls, boundaries and exit check, trail
updateBall(w, id) ==
  LET b0 == w.heap[id]
  IN IF ~b0.active THEN w
     ELSE CHOOSE r \in
            { [w1 EXCEPT !.heap[id] = updateTrail(w1.heap[id])] :
                w1 \in { checkExitZones([w EXCEPT !.events = w.events \o hit.hits],
                                        id, handleBoundaries(hit.ball)) :
                           hit \in { handleWallCollisions(moved, b0.x, b0.y) :
                                     moved \in { integrate(applyThreshold(clampVelocity(
                                                    applyForces(b0, w.gravity)))) } } } } : TRUE

RECURSIVE updateFrom(_, _)
updateFrom(w, k) == IF k > Len(balls) THEN w ELSE updateFrom(updateBall(w, balls[k]), k + 1)

\* update() without  if (this.paused) return
updated_ignorePause ==
  updateFrom([heap |-> heap, score |-> score, timers |-> timers, events |-> << >>,
              gravity |-> gravity], 1)

\* update() when this.gravity is g: nothing when paused, else every ball in order
updatedUnder(g) ==
  LET w == [heap |-> heap, score |-> score, timers |-> timers, events |-> << >>, gravity |-> g]
  IN IF paused THEN w ELSE updateFrom(w, 1)

\* update()
updated == updatedUnder(gravity)

\* allBallsExited by the exited flag instead of the active flag
allBallsExited_byExitedFlag == \A i \in 1 .. Len(balls) : heap[balls[i]].exited

\* allBallsExited
allBallsExited == \A i \in 1 .. Len(balls) : ~heap[balls[i]].active

\* getActiveBallCount
getActiveBallCount == Cardinality({ i \in 1 .. Len(balls) : heap[balls[i]].active })

\* getScore
getScore == score

\* ------------------------------------------------------------- SeededRandom
\* A seed can be too large for the checker's integers (Date.now() has 41 bits): it is
\* kept as three limbs of 14 bits, least significant first.  The product
\* seed * 1103515245 has up to 72 bits: it is kept as three chunks of 28 bits.
Limb == 16384

Chunk == 268435456

\* next(): the multiplier, the increment and the mask 0x7fffffff
Multiplier == 1103515245

Increment == 12345

Mask == 2147483647

ToLimbs(n) == << n % Limb, (n \div Limb) % Limb, n \div (Limb * Limb) >>

\* the low 31 bits of a number in limbs, or in chunks
Low31(a) == a[1] + a[2] * Limb + (a[3] % 8) * Chunk

ChunkLow31(c) == c[1] + (c[2] % 8) * Chunk

\* propagate the carries of three chunks
Carry(c) ==
  LET c2 == c[2] + c[1] \div Chunk
  IN << c[1] % Chunk, c2 % Chunk, c[3] + c2 \div Chunk >>

\* the exact product of a seed and the multiplier, in chunks
TimesMultiplier(a) ==
  LET m  == ToLimbs(Multiplier)
      p0 == a[1] * m[1]
      p1 == a[1] * m[2] + a[2] * m[1]
      p2 == a[1] * m[3] + a[2] * m[2] + a[3] * m[1]
      p3 == a[2] * m[3] + a[3] * m[2]
      p4 == a[3] * m[3]
  IN Carry(<< p0 + (p1 % Limb) * Limb,
              p1 \div Limb + p2 + (p3 % Limb) * Limb,
              p3 \div Limb + p4 >>)

\* the nearest double of a whole number below 2^81: doubles carry 53 significant
\* bits, so the low k bits are rounded away, ties to even, where k is the number of
\* bits of  c \div 2^53
RoundToDouble(c) ==
  LET k    == Bits(c[3] * 8 + c[2] \div 33554432)
      r    == c[1] % (2 ^ k)
      half == 2 ^ (k - 1)
      odd  == (c[1] \div (2 ^ k)) % 2 = 1
  IN IF k = 0 THEN c
     ELSE IF r > half \/ (r = half /\ odd) THEN Carry(<< c[1] - r + 2 ^ k, c[2], c[3] >>)
     ELSE << c[1] - r, c[2], c[3] >>

\* next() in exact arithmetic: (seed * 1103515245 + 12345) mod 2^31 without the
\* rounding of the product and of the sum to doubles
nextSeed_exact(seed) ==
  CHOOSE r \in { ToLimbs(ChunkLow31(Carry(<< product[1] + Increment, product[2], product[3] >>))) :
                  product \in { TimesMultiplier(seed) } } : TRUE

\* SeededRandom.next, line 58: the new seed.  Each of  seed * 1103515245  and
\* + 12345  is rounded to a double;  & 0x7fffffff  keeps the low 31 bits
\* (the one-element sets fix the order of evaluation: the product, then the sum)
nextSeed(seed) ==
  CHOOSE r \in { ToLimbs(ChunkLow31(sum)) :
                  sum \in { RoundToDouble(Carry(<< product[1] + Increment, product[2], product[3] >>)) :
                            product \in { RoundToDouble(exact) :
                                          exact \in { TimesMultiplier(seed) } } } } : TRUE

\* SeededRandom.nextInt(0, n) for the seed next() has just stored:
\* floor(seed / 0x7fffffff * n), that is how many j in 1 .. n have j * Mask <= seed * n
nextInt(seed, n) ==
  LET s == Low31(seed)
      a == Mask \div n
      b == Mask % n
  IN Cardinality({ j \in 1 .. n : s >= j * a + (j * b + n - 1) \div n })

\* what reading past the end of an array gives
Undefined == [undefined |-> TRUE]

\* [result[i], result[j]] = [result[j], result[i]]  for 0-based i and j; writing at
\* j = result.length grows the array
swap(result, i, j) ==
  IF j < Len(result)
  THEN [result EXCEPT ![i + 1] = result[j + 1], ![j + 1] = result[i + 1]]
  ELSE Append([result EXCEPT ![i + 1] = Undefined], result[i + 1])

RECURSIVE shuffleFrom(_, _, _)
shuffleFrom(result, seed, i) ==
  IF i <= 0 THEN [array |-> result, seed |-> seed]
  ELSE CHOOSE r \in { shuffleFrom(swap(result, i, nextInt(s, i + 1)), s, i - 1) :
                        s \in { nextSeed(seed) } } : TRUE

\* SeededRandom.shuffle: the shuffled copy and the seed it leaves in the generator
shuffle(array, seed) == shuffleFrom(array, seed, Len(array) - 1)

\* ------------------------------------------------------------ MazeGenerator
\* CELL_TYPES
WALL == 0

PATH == 1

ENTRY == 2

EXIT == 3

\* DIRECTIONS: up, right, down, left
DIRECTIONS == << [dx |-> 0, dy |-> -1], [dx |-> 1, dy |-> 0],
                 [dx |-> 0, dy |-> 1], [dx |-> -1, dy |-> 0] >>

\* _generateMaze, lines 230-238: rows x cols cells, indexed from 0, all Wall
allWalls(cols, rows) == [ y \in 0 .. rows - 1 |-> [ x \in 0 .. cols - 1 |-> WALL ] ]

\* The recursion of _carve is run with its call stack spelled out: st.m is the
\* generator (this), st.stack the activation records of the calls in progress, each
\* with its cell, its shuffled directions and the index k of the direction up next.

\* the call _carve(x, y), lines 258-262: mark the cell, shuffle the directions
carveCall(st, x, y) ==
  LET s == shuffle(DIRECTIONS, st.m.seed)
  IN [ m     |-> [st.m EXCEPT !.grid[y][x] = PATH, !.seed = s.seed],
       stack |-> Append(st.stack, [x |-> x, y |-> y, directions |-> s.array, k |-> 1]) ]

\* _carve, lines 264-280: one turn of the loop of the innermost call, or its return
carveStep(st) ==
  IF st.stack = << >> THEN st
  ELSE LET top  == Len(st.stack)
           f    == st.stack[top]
           dir  == f.directions[f.k]
           nx   == f.x + dir.dx * 2
           ny   == f.y + dir.dy * 2
           turn == [st EXCEPT !.stack[top].k = f.k + 1]
       IN IF f.k > Len(f.directions) THEN [st EXCEPT !.stack = SubSeq(@, 1, top - 1)]
          ELSE IF /\ nx > 0 /\ nx < st.m.cols - 1
                  /\ ny > 0 /\ ny < st.m.rows - 1
                  /\ st.m.grid[ny][nx] = WALL
               THEN carveCall([turn EXCEPT !.m.grid[f.y + dir.dy][f.x + dir.dx] = PATH], nx, ny)
               ELSE turn

\* n steps of carveStep: the first half, then from its result the second half
RECURSIVE carveSteps(_, _)
carveSteps(st, n) ==
  IF n > 1
  THEN CHOOSE r \in { carveSteps(half, n - n \div 2) : half \in { carveSteps(st, n \div 2) } } : TRUE
  ELSE IF n = 1 THEN carveStep(st) ELSE st

\* _carve(x, y), run to its return: every call takes one step per direction and one
\* to return, and there is at most one call per cell with odd coordinates
carve(m, x, y) ==
  carveSteps(carveCall([m |-> m, stack |-> << >>], x, y),
             5 * ((m.cols - 1) \div 2) * ((m.rows - 1) \div 2)).m

\* _generateMaze
generateMaze(m) ==
  LET startX       == m.cols \div 2
      startY       == 1
      actualStartX == IF startX % 2 = 0 THEN startX + 1 ELSE startX
  IN carve([m EXCEPT !.grid = allWalls(m.cols, m.rows)], actualStartX, startY)

\* the search that takes the first Path cell of the second-to-last row, however far
\* from the target column
nearestPath_firstPath(m, targetCol, x, bestCol, minDist) ==
  IF \E c \in x .. m.cols - 2 : m.grid[m.rows - 2][c] = PATH
  THEN CHOOSE c \in x .. m.cols - 2 :
         /\ m.grid[m.rows - 2][c] = PATH
         /\ \A d \in x .. c - 1 : m.grid[m.rows - 2][d] # PATH
  ELSE bestCol

\* _createEntryAndExits, lines 303-311: the nearest-path search for one target
\* column, scanning x from 1 to cols - 2; the first nearest one wins
RECURSIVE nearestPath(_, _, _, _, _)
nearestPath(m, targetCol, x, bestCol, minDist) ==
  IF x >= m.cols - 1 THEN bestCol
  ELSE IF m.grid[m.rows - 2][x] = PATH /\ Abs(x - targetCol) < minDist
       THEN nearestPath(m, targetCol, x + 1, x, Abs(x - targetCol))
       ELSE nearestPath(m, targetCol, x + 1, bestCol, minDist)

\* createExits with the Exit at the target column itself, without the search for
\* the nearest Path cell of the second-to-last row
RECURSIVE createExits_atTargetColumn(_, _)
createExits_atTargetColumn(m, exitPositions) ==
  IF exitPositions = << >> THEN m
  ELSE LET targetCol == (Head(exitPositions) * m.cols) \div 10
       IN createExits_atTargetColumn([m EXCEPT !.grid[m.rows - 1][targetCol] = EXIT,
                                               !.exitColumns = Append(@, targetCol)],
                                     Tail(exitPositions))

\* _createEntryAndExits, lines 296-319: one exit per position 0.1, 0.3, 0.5, 0.7, 0.9,
\* given in tenths.  Infinity is a distance no column has: cols
RECURSIVE createExits(_, _)
createExits(m, exitPositions) ==
  IF exitPositions = << >> THEN m
  ELSE LET targetCol == (Head(exitPositions) * m.cols) \div 10
           bestCol   == nearestPath(m, targetCol, 1, targetCol, m.cols)
       IN createExits([m EXCEPT !.grid[m.rows - 1][bestCol] = EXIT,
                                !.exitColumns = Append(@, bestCol)],
                      Tail(exitPositions))

\* _createEntryAndExits, lines 326-329: Path upwards from row y until a Path cell
RECURSIVE connectUp(_, _, _)
connectUp(grid, col, y) ==
  IF y < 0 \/ grid[y][col] = PATH THEN grid
  ELSE connectUp([grid EXCEPT ![y][col] = PATH], col, y - 1)

\* _createEntryAndExits, lines 322-331: "Ensure paths connect to exits"
RECURSIVE connectExits(_, _)
connectExits(m, k) ==
  IF k > Len(m.exitColumns) THEN m
  ELSE connectExits(IF m.grid[m.rows - 2][m.exitColumns[k]] = WALL
                    THEN [m EXCEPT !.grid = connectUp(m.grid, m.exitColumns[k], m.rows - 2)]
                    ELSE m,
                    k + 1)

\* _createEntryAndExits without  this.grid[1][centerX] = PATH
createEntryAndExits_closedBelowEntry(m) ==
  LET centerX == m.cols \div 2
      entered == [m EXCEPT !.grid[0][centerX] = ENTRY, !.exitColumns = << >>]
  IN connectExits(createExits(entered, << 1, 3, 5, 7, 9 >>), 1)

\* _createEntryAndExits without  this.exitColumns = []
createEntryAndExits_keepExitColumns(m) ==
  LET centerX == m.cols \div 2
      entered == [m EXCEPT !.grid[0][centerX] = ENTRY, !.grid[1][centerX] = PATH]
  IN connectExits(createExits(entered, << 1, 3, 5, 7, 9 >>), 1)

\* _createEntryAndExits
createEntryAndExits(m) ==
  LET centerX == m.cols \div 2
      entered == [m EXCEPT !.grid[0][centerX] = ENTRY, !.grid[1][centerX] = PATH,
                           !.exitColumns = << >>]
  IN connectExits(createExits(entered, << 1, 3, 5, 7, 9 >>), 1)

\* _buildExitZones: exitScores
exitScores == << 500, 100, 1000, 0, 250 >>

\* EXIT_CONFIG.zoneHeight, in pixels
ZoneHeight == 45

\* _buildExitZones with a zone width of whole pixels, Math.floor(this.width / 5)
buildExitZones_wholePixels(m) ==
  LET zoneWidth == (m.width \div 5) * Scale
  IN [m EXCEPT !.exitZones =
        [ k \in 1 .. 5 |->
            [ x      |-> (k - 1) * zoneWidth,
              y      |-> m.height * Scale,
              width  |-> zoneWidth,
              height |-> ZoneHeight * Scale,
              score  |-> exitScores[k],
              column |-> IF k <= Len(m.exitColumns) /\ m.exitColumns[k] # 0
                         THEN m.exitColumns[k]
                         ELSE ((2 * k - 1) * m.cols) \div 10 ] ]]

\* _buildExitZones with the zones laid out from the second fifth of the width on,
\* zoneX = (i + 1) * zoneWidth
buildExitZones_fromSecondFifth(m) ==
  LET zoneWidth == (m.width * Scale) \div 5
  IN [m EXCEPT !.exitZones =
        [ k \in 1 .. 5 |->
            [ x      |-> k * zoneWidth,
              y      |-> m.height * Scale,
              width  |-> zoneWidth,
              height |-> ZoneHeight * Scale,
              score  |-> exitScores[k],
              column |-> IF k <= Len(m.exitColumns) /\ m.exitColumns[k] # 0
                         THEN m.exitColumns[k]
                         ELSE ((2 * k - 1) * m.cols) \div 10 ] ]]

\* _buildExitZones.  Zone and wall coordinates are in units; the fifth of a whole
\* number of pixels is a whole number of units
buildExitZones(m) ==
  LET zoneWidth == (m.width * Scale) \div 5
  IN [m EXCEPT !.exitZones =
        [ k \in 1 .. 5 |->
            [ x      |-> (k - 1) * zoneWidth,
              y      |-> m.height * Scale,
              width  |-> zoneWidth,
              height |-> ZoneHeight * Scale,
              score  |-> exitScores[k],
              column |-> IF k <= Len(m.exitColumns) /\ m.exitColumns[k] # 0
                         THEN m.exitColumns[k]
                         ELSE ((2 * k - 1) * m.cols) \div 10 ] ]]

\* _buildWallRects: one rectangle per Wall cell, row by row
buildWallRects(m) ==
  LET cells  == [ i \in 1 .. m.rows * m.cols |->
                    [x |-> (i - 1) % m.cols, y |-> (i - 1) \div m.cols] ]
      isWall(c) == m.grid[c.y][c.x] = WALL
      rect(c) == Rect(c.x * m.cellSize * Scale, c.y * m.cellSize * Scale,
                      m.cellSize * Scale, m.cellSize * Scale)
      chosen == SelectSeq(cells, isWall)
  IN [m EXCEPT !.wallRects = [ i \in 1 .. Len(chosen) |-> rect(chosen[i]) ]]

\* init, line 149
isLandscape(canvasWidth, canvasHeight) == canvasWidth > canvasHeight

\* init, lines 155-167
marginLeft(canvasWidth, canvasHeight) == IF isLandscape(canvasWidth, canvasHeight) THEN 120 ELSE 20

marginRight == 20

marginTop(canvasWidth, canvasHeight) == IF isLandscape(canvasWidth, canvasHeight) THEN 20 ELSE 100

marginBottom == 100

\* init, lines 170-171
availableWidth(canvasWidth, canvasHeight) ==
  canvasWidth - marginLeft(canvasWidth, canvasHeight) - marginRight

availableHeight(canvasWidth, canvasHeight) ==
  canvasHeight - marginTop(canvasWidth, canvasHeight) - marginBottom - ZoneHeight

\* init, lines 174-179: the level's target counts, made odd
levelCols(level) ==
  LET t == Min(21, 11 + (level \div 3) * 2) IN IF t % 2 = 0 THEN t + 1 ELSE t

levelRows(level) ==
  LET t == Min(25, 13 + (level \div 4) * 2) IN IF t % 2 = 0 THEN t + 1 ELSE t

\* init, line 182
minCellSize == 16

\* init, lines 183-186: the cell size that fits the target counts
fittingCellSize(level, canvasWidth, canvasHeight) ==
  Min(availableWidth(canvasWidth, canvasHeight) \div levelCols(level),
      availableHeight(canvasWidth, canvasHeight) \div levelRows(level))

\* the fallback count without  if (target % 2 === 0) target--
fallbackCount_notMadeOdd(available) == Max(9, available \div minCellSize)

\* init, lines 193-199: the count that fits at the minimum cell size, odd, at least 9
fallbackCount(available) ==
  LET t == available \div minCellSize
  IN Max(9, IF t % 2 = 0 THEN t - 1 ELSE t)

\* init, lines 174-203: cols, rows and cellSize
gridSize(level, canvasWidth, canvasHeight) ==
  IF fittingCellSize(level, canvasWidth, canvasHeight) < minCellSize
  THEN [ cols     |-> fallbackCount(availableWidth(canvasWidth, canvasHeight)),
         rows     |-> fallbackCount(availableHeight(canvasWidth, canvasHeight)),
         cellSize |-> minCellSize ]
  ELSE [ cols     |-> levelCols(level),
         rows     |-> levelRows(level),
         cellSize |-> fittingCellSize(level, canvasWidth, canvasHeight) ]

\* MazeGenerator.init.  now: what Date.now() returns
initMaze(m, level, canvasWidth, canvasHeight, now) ==
  LET g == gridSize(level, canvasWidth, canvasHeight)
      sized == [m EXCEPT !.level = level,
                         !.cols = g.cols, !.rows = g.rows, !.cellSize = g.cellSize,
                         !.width = g.cols * g.cellSize, !.height = g.rows * g.cellSize,
                         !.marginLeft = marginLeft(canvasWidth, canvasHeight),
                         !.marginTop = marginTop(canvasWidth, canvasHeight),
                         !.seed = now]
  IN CHOOSE r \in
       { [built EXCEPT !.entryX = (built.width * Scale) \div 2,
                       !.entryY = (built.cellSize * Scale * 3) \div 2] :
           built \in { buildWallRects(buildExitZones(exits)) :
                         exits \in { createEntryAndExits(carved) :
                                       carved \in { generateMaze(sized) } } } } : TRUE

\* getSpawnPositions, in units: spacing 2.2 ballRadius, offsets scaled by 0.3,
\* each ball half a default radius lower than the one before
getSpawnPositions(m, ballCount) ==
  LET spacing     == Mul(DefaultBallRadius, 220)
      entryCol    == m.cols \div 2
      entryPixelX == ((2 * entryCol + 1) * m.cellSize * Scale) \div 2
      entryPixelY == (m.cellSize * Scale * 3) \div 2
  IN [ k \in 1 .. ballCount |->
         << entryPixelX + RDiv((2 * (k - 1) - (ballCount - 1)) * spacing * 30, 2 * Scale),
            entryPixelY + (k - 1) * Mul(DefaultBallRadius, 50) >> ]

\* getDimensions: ballRadius = max(5, floor(cellSize * 0.35)), in units
\* (the double 0.35 gives the same floor for every cell size below 180)
getDimensions(m) ==
  [ width |-> m.width * Scale, height |-> m.height * Scale,
    ballRadius |-> Max(5, (m.cellSize * 35) \div 100) * Scale ]

\* ------------------------------------------------------- MazeGenerator inputs
\* Date.now() on 2026-11-04 00:00:00 UTC, 1793750400000, in limbs
Epoch == << 15360, 3947, 6682 >>

\* the values Date.now() gives: Epoch and the milliseconds after it
Nows == { [Epoch EXCEPT ![1] = @ + i] : i \in 0 .. MaxNows - 1 }

\* levels init is called with: 11 x 13 cells, and 13 x 13 with an even centre column
MazeLevels == { 1, 3 }

\* canvas sizes << width, height >>: a desktop window; a phone held upright and on
\* its side; a small window; one smaller than the margins; one that fits the first
\* level at exactly the minimum cell size; a narrow tall one
Canvases == { << 800, 600 >>, << 320, 568 >>, << 568, 320 >>, << 200, 400 >>,
              << 100, 100 >>, << 216, 453 >>, << 150, 800 >> }

\* new MazeGenerator()
NewMazeGenerator ==
  [ grid |-> << >>, cols |-> 15, rows |-> 15, cellSize |-> 30, level |-> 1,
    seed |-> Epoch, exitZones |-> << >>, wallRects |-> << >>, entryX |-> 0, entryY |-> 0,
    width |-> 0, height |-> 0, exitColumns |-> << >>, marginLeft |-> 0, marginTop |-> 0 ]

\* before the first init call
NoArgs == [ level |-> 0, canvasWidth |-> 0, canvasHeight |-> 0, now |-> ToLimbs(0) ]

\* new Game(), lines 26-68: the fields the game's logic reads
NewGame == [ state |-> "menu", level |-> 1, score |-> 0, totalScore |-> 0, targetScore |-> 0 ]

\* new SeededRandom(seed): the object, and no call made yet.  from is the seed the
\* last call found, min and max its arguments, value what it returned
SeededRandom(seed) ==
  [ seed |-> seed, op |-> "new", from |-> seed, min |-> 0, max |-> 0, value |-> 0, draws |-> 0 ]

\* the clock: a is a later time than b
Later(a, b) == a[3] > b[3] \/ (a[3] = b[3] /\ (a[2] > b[2] \/ (a[2] = b[2] /\ a[1] > b[1])))

\* ------------------------------------------------------------------ actions
\* seeds a SeededRandom object is made with: clock values, the smallest seeds, the
\* largest 31-bit one, the largest whose product with the multiplier is below 2^53,
\* and the one 31-bit seed s with (s * 1103515245 + 12345) mod 2^31 = 0x7fffffff
Seeds == Nows \cup { ToLimbs(0), ToLimbs(1), ToLimbs(Mask), ToLimbs(8162278), ToLimbs(230538014) }

\* argument pairs << min, max >> of nextInt: those of shuffle, and one with min > 0
Draws == { << 0, 2 >>, << 0, 3 >>, << 0, 4 >>, << 2, 7 >> }

\* new PhysicsEngine(), new MazeGenerator(), new Game()
Constructed ==
  /\ heap = << >>
  /\ balls = << >>
  /\ gravity = << 0, 0 >>
  /\ paused = FALSE
  /\ score = 0
  /\ walls = << >>
  /\ exitZones = << >>
  /\ mazeWidth = 0
  /\ mazeHeight = 0
  /\ ballRadius = 0
  /\ onBallExit = FALSE
  /\ onWallHit = FALSE
  /\ timers = << >>
  /\ events = << >>
  /\ lastOp = "new"
  /\ frames = 0
  /\ maze = NewMazeGenerator
  /\ mazeArgs = NoArgs
  /\ game = NewGame
  /\ controls = [ route |-> 1 ]

\* the state when the page has loaded; the SeededRandom object is one made at Epoch
Init == Constructed /\ rng = SeededRandom(Epoch)

\* the balls init makes: one new Ball object per spawn position
initBalls(L, ids) ==
  [ id \in Range(ids) |->
      LET i == CHOOSE j \in 1 .. Len(ids) : ids[j] = id
      IN Ball(L.spawnPositions[i][1], L.spawnPositions[i][2], i - 1,
              IF L.ballRadius # 0 THEN L.ballRadius ELSE DefaultBallRadius) ]

\* init without  this.score = 0
initState_keepScore(L, ids) ==
  [ balls |-> ids, objects |-> initBalls(L, ids), score |-> score, paused |-> paused ]

\* the fields init assigns, as [balls, heap, score, paused]
initState(L, ids) ==
  [ balls |-> ids, objects |-> initBalls(L, ids), score |-> 0, paused |-> paused ]

\* PhysicsEngine.init(spawnPositions, walls, exitZones, mazeWidth, mazeHeight, ballRadius)
init(n) ==
  LET L   == Levels[n]
      ids == FreshIds(Len(L.spawnPositions), Range(timers))
      s   == initState(L, ids)
  IN /\ Len(timers) <= MaxStale
     /\ balls' = s.balls
     /\ heap' = Collect(heap, << >>, timers, << >>) @@ s.objects
     /\ score' = s.score
     /\ paused' = s.paused
     /\ walls' = L.walls
     /\ exitZones' = L.exitZones
     /\ mazeWidth' = L.mazeWidth
     /\ mazeHeight' = L.mazeHeight
     /\ ballRadius' = IF L.ballRadius # 0 THEN L.ballRadius ELSE DefaultBallRadius
     /\ events' = << >>
     /\ lastOp' = "init"
     /\ UNCHANGED << gravity, callbacks, timers, frames, generator, client >>

\* PhysicsEngine.setGravity
setGravity(g) ==
  /\ gravity' = g
  /\ events' = << >>
  /\ lastOp' = "set"
  /\ heap' = Collect(heap, balls, timers, << >>)
  /\ UNCHANGED << balls, paused, score, geometry, callbacks, timers, frames, generator, client >>

\* PhysicsEngine.update, in a run of at most limit calls
updateWithin(limit) ==
  /\ frames < limit
  /\ frames' = frames + 1
  /\ heap' = Collect(updated.heap, balls, updated.timers, << >>)
  /\ score' = updated.score
  /\ timers' = updated.timers
  /\ events' = updated.events
  /\ lastOp' = "update"
  /\ UNCHANGED << balls, gravity, paused, geometry, callbacks, generator, client >>

\* update(), in the runs of MaxFrames calls
update == updateWithin(MaxFrames)

\* PhysicsEngine.setPaused
setPaused(p) ==
  /\ paused' = p
  /\ events' = << >>
  /\ lastOp' = "set"
  /\ heap' = Collect(heap, balls, timers, << >>)
  /\ UNCHANGED << balls, gravity, score, geometry, callbacks, timers, frames, generator, client >>

\* PhysicsEngine.setOnBallExit, with a function
setOnBallExit ==
  /\ ~onBallExit
  /\ onBallExit' = TRUE
  /\ events' = << >>
  /\ lastOp' = "set"
  /\ heap' = Collect(heap, balls, timers, << >>)
  /\ UNCHANGED << balls, gravity, paused, score, geometry, onWallHit, timers, frames, generator, client >>

\* PhysicsEngine.setOnWallHit, with a function
setOnWallHit ==
  /\ ~onWallHit
  /\ onWallHit' = TRUE
  /\ events' = << >>
  /\ lastOp' = "set"
  /\ heap' = Collect(heap, balls, timers, << >>)
  /\ UNCHANGED << balls, gravity, paused, score, geometry, onBallExit, timers, frames, generator, client >>

\* the notification the timer callback delivers: the ball, and what the receiver
\* reads at that moment (Game._onBallExit reads getScore() and ball.score)
exitEvent(id) ==
  [ type |-> "ballExit", ball |-> id, ballScore |-> heap[id].score, engineScore |-> getScore ]

\* the timer callback without  ball.active = false
deactivated_callbackOnly(id) ==
  [ heap   |-> heap,
    events |-> IF onBallExit THEN << exitEvent(id) >> ELSE << >> ]

\* what the timer callback does to the heap and what it delivers
deactivated(id) ==
  [ heap   |-> [heap EXCEPT ![id].active = FALSE],
    events |-> IF onBallExit THEN << exitEvent(id) >> ELSE << >> ]

\* _checkExitZones, lines 344-349: the setTimeout callback, 300 ms after the exit.
\* Equal delays fire in the order they were set.
deactivate ==
  /\ timers # << >>
  /\ timers' = Tail(timers)
  /\ events' = deactivated(Head(timers)).events
  /\ heap' = Collect(deactivated(Head(timers)).heap, balls, timers', events')
  /\ lastOp' = "deactivate"
  /\ UNCHANGED << balls, gravity, paused, score, geometry, callbacks, frames, generator, client >>

\* the fields reset assigns
resetState == [ balls |-> << >>, score |-> 0, paused |-> FALSE, walls |-> << >>, exitZones |-> << >> ]

\* PhysicsEngine.reset
reset ==
  /\ Len(timers) <= MaxStale
  /\ balls' = resetState.balls
  /\ score' = resetState.score
  /\ paused' = resetState.paused
  /\ walls' = resetState.walls
  /\ exitZones' = resetState.exitZones
  /\ heap' = Collect(heap, << >>, timers, << >>)
  /\ events' = << >>
  /\ lastOp' = "reset"
  /\ UNCHANGED << gravity, mazeWidth, mazeHeight, ballRadius, callbacks, timers, frames, generator, client >>

Next ==
  \/ \E n \in 1 .. Len(Levels) : init(n)
  \/ \E g \in Gravities : setGravity(g)
  \/ update
  \/ \E p \in BOOLEAN : setPaused(p)
  \/ setOnBallExit
  \/ setOnWallHit
  \/ deactivate
  \/ reset

Spec == Init /\ [][Next]_vars

\* the engine with the event loop's guarantee that a timer that was set fires
FairSpec == Spec /\ WF_vars(deactivate)

\* MazeGenerator.init(level, canvasWidth, canvasHeight), with Date.now() = now, a
\* later time than that of the call before
mazeInit(level, canvasWidth, canvasHeight, now) ==
  /\ Later(now, mazeArgs.now)
  /\ maze' = initMaze(maze, level, canvasWidth, canvasHeight, now)
  /\ mazeArgs' = [ level |-> level, canvasWidth |-> canvasWidth,
                   canvasHeight |-> canvasHeight, now |-> now ]
  /\ UNCHANGED << heap, balls, gravity, paused, score, geometry, callbacks, timers,
                  events, lastOp, frames, client >>

MazeNext ==
  \E level \in MazeLevels, canvas \in Canvases, now \in Nows :
    mazeInit(level, canvas[1], canvas[2], now)

\* the maze generator alone, initialised over and over
MazeSpec == Init /\ [][MazeNext]_vars

\* everything but the SeededRandom object
page == << heap, balls, gravity, paused, score, geometry, callbacks, timers, events,
          lastOp, frames, generator, game, controls >>

\* SeededRandom.nextInt(min, max): next(), then floor(next * (max - min)) + min
rngNextInt(min, max) ==
  /\ rng.draws < MaxDraws
  /\ rng' = [ seed  |-> nextSeed(rng.seed), op |-> "nextInt", from |-> rng.seed,
              min   |-> min, max |-> max,
              value |-> nextInt(nextSeed(rng.seed), max - min) + min,
              draws |-> rng.draws + 1 ]
  /\ UNCHANGED page

\* SeededRandom.shuffle([...DIRECTIONS]), as _carve calls it
rngShuffle ==
  /\ rng.draws < MaxDraws
  /\ rng' = [ seed  |-> shuffle(DIRECTIONS, rng.seed).seed, op |-> "shuffle", from |-> rng.seed,
              min   |-> 0, max |-> Len(DIRECTIONS),
              value |-> shuffle(DIRECTIONS, rng.seed).array,
              draws |-> rng.draws + 1 ]
  /\ UNCHANGED page

\* any seed
RngInit == Constructed /\ \E seed \in Seeds : rng = SeededRandom(seed)

RngNext ==
  \/ \E d \in Draws : rngNextInt(d[1], d[2])
  \/ rngShuffle

\* one SeededRandom object, made with any seed and called over and over
RngSpec == RngInit /\ [][RngNext]_vars

\* getBallCount (config.js): ballCounts.low and ballCounts.high are both 1
getBallCount(level) == 1

\* the arguments Game.startLevel passes to PhysicsEngine.init for maze m
engineArgs(m, level) ==
  [ spawnPositions |-> getSpawnPositions(m, getBallCount(level)),
    walls          |-> m.wallRects,
    exitZones      |-> m.exitZones,
    mazeWidth      |-> getDimensions(m).width,
    mazeHeight     |-> getDimensions(m).height,
    ballRadius     |-> getDimensions(m).ballRadius ]

\* LEVEL_CONFIG.targetScore
TargetScore == 1000

\* getTargetScore (config.js): "always 1000"
getTargetScore(level) == TargetScore

\* Game.startLevel when the Game object is g: MazeGenerator.init, PhysicsEngine.init
\* with what the maze gives, setOnBallExit, state PLAYING.  The game loop is running
\* from the first call on.
startLevel(g, canvasWidth, canvasHeight, now) ==
  LET L   == engineArgs(maze', g.level)
      ids == FreshIds(Len(L.spawnPositions), Range(timers))
      s   == initState(L, ids)
  IN /\ Later(now, mazeArgs.now)
     /\ maze' = initMaze(maze, g.level, canvasWidth, canvasHeight, now)
     /\ mazeArgs' = [ level |-> g.level, canvasWidth |-> canvasWidth,
                      canvasHeight |-> canvasHeight, now |-> now ]
     /\ balls' = s.balls
     /\ heap' = Collect(heap, << >>, timers, << >>) @@ s.objects
     /\ score' = s.score
     /\ paused' = s.paused
     /\ walls' = L.walls
     /\ exitZones' = L.exitZones
     /\ mazeWidth' = L.mazeWidth
     /\ mazeHeight' = L.mazeHeight
     /\ ballRadius' = L.ballRadius
     /\ onBallExit' = TRUE
     /\ events' = << >>
     /\ lastOp' = "set"
     /\ frames' = 0
     /\ game' = [g EXCEPT !.targetScore = getTargetScore(g.level), !.score = 0,
                          !.state = "playing"]
     /\ UNCHANGED << gravity, onWallHit, timers, rng >>

\* the first level played after the page is loaded, on any canvas
firstLevel(level, canvasWidth, canvasHeight, now) ==
  /\ lastOp = "new"
  /\ startLevel([game EXCEPT !.level = level], canvasWidth, canvasHeight, now)
  /\ UNCHANGED controls

PlayNext ==
  \/ \E level \in MazeLevels, canvas \in Canvases, now \in Nows :
       firstLevel(level, canvas[1], canvas[2], now)
  \/ \E g \in Tilts : setGravity(g)
  \/ update

\* a level played on a generated maze: the game loop sets the gravity and calls
\* update() once per frame
PlaySpec == Init /\ [][PlayNext]_vars

\* --------------------------------------------------------------------- Game
\* Renderer.getDimensions(): the canvas of a small window, which gives a maze of
\* 9 x 9 cells of 16 pixels
GameCanvas == << 200, 400 >>

\* the values Date.now() gives when a level is started
GameNows == { [Epoch EXCEPT ![1] = @ + i] : i \in 0 .. MaxStarts - 1 }

\* n frames with the device held at tilt g
Hold(g, n) == [ i \in 1 .. n |-> g ]

\* What ControlsManager.getGravity() returns frame after frame, as the player steers
\* the ball of a level by what the ball has done: the tilt of a frame is that of the
\* number of updates that have moved the balls so far, and the last tilt is held
\* from then on.  The routes are those
\* of the maze made at Epoch:
\*   1: hands off
\*   2: left along the first corridor, down the left column, right along the last
\*      corridor and down through the middle exit
\*   3: left and down through the first exit, then on to the left edge
\*   4: as 2, but on to the right, through the last exit and to the right edge
\*   5: up through the entry
Routes ==
  << Hold(<< 0, 0 >>, 1),
     Hold(<< -500, 0 >>, 4) \o Hold(<< 0, 500 >>, 8) \o Hold(<< 500, 0 >>, 4) \o Hold(<< 0, 500 >>, 4),
     Hold(<< -500, 0 >>, 4) \o Hold(<< 500, 500 >>, 4) \o Hold(<< 0, 500 >>, 4) \o Hold(<< -500, 0 >>, 4),
     Hold(<< -500, 0 >>, 4) \o Hold(<< 0, 500 >>, 8) \o Hold(<< 500, 0 >>, 8) \o Hold(<< 500, 500 >>, 4),
     Hold(<< 0, -500 >>, 1) >>

\* ControlsManager.getGravity() in the frame that follows the frames made so far
getGravity ==
  LET r == Routes[controls.route] IN r[Min(frames + 1, Len(r))]

\* Game.startGame: the start button of the menu
startGame(now, route) ==
  /\ game.state = "menu"
  /\ startLevel([game EXCEPT !.level = 1, !.totalScore = 0], GameCanvas[1], GameCanvas[2], now)
  /\ controls' = [ route |-> route ]

\* Game.restartLevel: the restart and retry buttons, the restart button of the pause
\* overlay, the R key while playing or paused
restartLevel(now, route) ==
  /\ game.state \in { "playing", "paused", "level_complete", "level_failed" }
  /\ startLevel(game, GameCanvas[1], GameCanvas[2], now)
  /\ controls' = [ route |-> route ]

\* Game.nextLevel: the button of the level-complete overlay
nextLevel(now, route) ==
  /\ game.state = "level_complete"
  /\ startLevel([game EXCEPT !.level = @ + 1], GameCanvas[1], GameCanvas[2], now)
  /\ controls' = [ route |-> route ]

\* Game._onLevelComplete with a target that has to be exceeded, score > targetScore
onLevelComplete_aboveTarget(g, engineScore) ==
  [g EXCEPT !.score = engineScore,
            !.totalScore = @ + engineScore,
            !.state = IF engineScore > g.targetScore THEN "level_complete" ELSE "level_failed"]

\* Game._onLevelComplete when the Game object is g and getScore() gives engineScore.
\* LEVEL_CONFIG.maxLevel is Infinity: no level is the last one
onLevelComplete(g, engineScore) ==
  [g EXCEPT !.score = engineScore,
            !.totalScore = @ + engineScore,
            !.state = IF engineScore >= g.targetScore THEN "level_complete" ELSE "level_failed"]

\* Game._gameLoop, one frame in state PLAYING (in any other state it only renders):
\* setGravity, update, and _onLevelComplete when allBallsExited().  MaxTicks bounds
\* the frames in which the engine is not paused, which frames counts.
gameLoop ==
  /\ game.state = "playing"
  /\ frames < MaxTicks \/ allBallsExited
  /\ gravity' = getGravity
  /\ \E u \in { updatedUnder(getGravity) } :
       /\ heap' = Collect(u.heap, balls, u.timers, << >>)
       /\ score' = u.score
       /\ timers' = u.timers
       /\ events' = u.events
  /\ UNCHANGED << balls, paused, geometry, callbacks, generator, rng, controls >>
  /\ game' = IF allBallsExited' THEN onLevelComplete(game, getScore') ELSE game
  /\ frames' = IF paused THEN frames ELSE frames + 1
  /\ lastOp' = "update"

\* the setTimeout callback of _checkExitZones with Game._onBallExit as the callback
timeout ==
  /\ timers # << >>
  /\ timers' = Tail(timers)
  /\ events' = deactivated(Head(timers)).events
  /\ heap' = Collect(deactivated(Head(timers)).heap, balls, timers', events')
  /\ game' = IF onBallExit THEN [game EXCEPT !.score = getScore] ELSE game
  /\ lastOp' = "deactivate"
  /\ UNCHANGED << balls, gravity, paused, score, geometry, callbacks, frames, generator,
                  rng, controls >>

\* Game.pauseGame
pauseGame ==
  /\ game.state = "playing"
  /\ game' = [game EXCEPT !.state = "paused"]
  /\ paused' = TRUE
  /\ events' = << >>
  /\ lastOp' = "set"
  /\ heap' = Collect(heap, balls, timers, << >>)
  /\ UNCHANGED << balls, gravity, score, geometry, callbacks, timers, frames, generator,
                  rng, controls >>

\* Game.resumeGame
resumeGame ==
  /\ game.state = "paused"
  /\ game' = [game EXCEPT !.state = "playing"]
  /\ paused' = FALSE
  /\ events' = << >>
  /\ lastOp' = "set"
  /\ heap' = Collect(heap, balls, timers, << >>)
  /\ UNCHANGED << balls, gravity, score, geometry, callbacks, timers, frames, generator,
                  rng, controls >>

\* Game.togglePause: the pause button, the Escape key while playing
togglePause ==
  IF game.state = "playing" THEN pauseGame ELSE resumeGame

GameNext ==
  \/ \E now \in GameNows, route \in 1 .. Len(Routes) : startGame(now, route)
  \/ \E now \in GameNows, route \in 1 .. Len(Routes) : restartLevel(now, route)
  \/ \E now \in GameNows, route \in 1 .. Len(Routes) : nextLevel(now, route)
  \/ gameLoop
  \/ timeout
  \/ pauseGame
  \/ resumeGame
  \/ togglePause

\* the game as the player drives it
GameSpec == Init /\ [][GameNext]_vars

\* states in which a frame of the game loop changes the state: PLAYING with an
\* engine that runs, or with all balls inactive
frameDue ==
  /\ game.state = "playing"
  /\ (~paused /\ frames < MaxTicks) \/ allBallsExited

\* the game with a game loop that keeps running (requestAnimationFrame: a frame
\* that is due again and again is made, which is what strong fairness of gameLoop
\* gives), timers that fire, and a player who does not leave the game paused for ever
GameFairSpec ==
  /\ GameSpec
  /\ []<>frameDue => []<><<gameLoop>>_vars
  /\ WF_vars(timeout)
  /\ WF_vars(resumeGame)

\* ------------------------------------------------------------------ falling
DropNext ==
  \/ \E now \in GameNows : firstLevel(1, GameCanvas[1], GameCanvas[2], now)
  \/ \E n \in 1 .. Len(Levels) : lastOp = "new" /\ init(n)
  \/ updateWithin(MaxDrop)
  \/ \E p \in BOOLEAN : setPaused(p)
  \/ deactivate

\* the balls of one level left to the base gravity: the engine is initialised once,
\* nobody tilts the device, and update() is called up to MaxDrop times, with pauses
DropSpec == Init /\ [][DropNext]_vars

\* ------------------------------------------------------------------- claims
\* the ball objects of the current level
Current == Range(balls)

\* ball id is one the engine no longer holds: init or reset replaced the list
Stale(id) == id \notin Current

\* the sum of ball.score over the balls of getBalls() whose exited flag is true
ExitedScoreSum ==
  SumSeq([ i \in 1 .. Len(balls) |->
             IF heap[balls[i]].exited THEN heap[balls[i]].score ELSE 0 ])

ExitEvents == { events[i] : i \in { j \in 1 .. Len(events) : events[j].type = "ballExit" } }

\* C1 (as stated): a deferred deactivation left over from before the last init is
\* cancelled or ignored: when its time comes it changes no Ball's active flag and
\* delivers no ball-exit notification
C1_StaleCallbackIgnored ==
  [][ ( /\ timers # << >>
        /\ balls # << >>
        /\ Stale(Head(timers))
        /\ lastOp' = "deactivate" )
      => ( /\ events' = << >>
           /\ Head(timers) \in DOMAIN heap' =>
                heap'[Head(timers)].active = heap[Head(timers)].active ) ]_vars

\* C2: getScore() equals the sum of ball.score over the exited balls of getBalls()
C2_ScoreIsSumOfExited == getScore = ExitedScoreSum

\* C2 witness: two balls have exited with a score each and the total is their sum
C2_TwoExitedWitness ==
  /\ Len(balls) = 2
  /\ \A id \in Current : heap[id].exited /\ heap[id].score > 0
  /\ getScore = heap[balls[1]].score + heap[balls[2]].score

\* C3 (as stated): while the engine is paused no notification is delivered and no
\* ball's active flag changes, a pending deferred deactivation included
C3_NoCallbacksWhilePaused ==
  [][ (paused /\ paused' /\ lastOp' \notin {"init", "reset"})
      => ( /\ events' = << >>
           /\ \A id \in (DOMAIN heap) \cap (DOMAIN heap') :
                heap'[id].active = heap[id].active ) ]_vars

\* C4: update() while paused leaves every ball (position, velocity, trail, exited,
\* score, active) and the engine's total score unchanged, and delivers nothing
C4_PausedUpdateChangesNothing ==
  [][ (paused /\ lastOp' = "update")
      => ( /\ \A id \in Current : heap'[id] = heap[id]
           /\ score' = score
           /\ timers' = timers
           /\ events' = << >> ) ]_vars

\* C4 witness: update() was called on a paused engine holding an active ball in motion
C4_PausedUpdateWitness ==
  /\ paused
  /\ lastOp = "update"
  /\ \E id \in Current : heap[id].active /\ heap[id].vy # 0 /\ heap[id].trail # << >>

\* C5 (as stated): after init the engine is as a new engine given the same arguments:
\* not paused, score 0, every ball as constructed
C5_InitResetsEverything ==
  lastOp = "init" =>
    /\ paused = FALSE
    /\ score = 0
    /\ \A i \in 1 .. Len(balls) :
         LET b == heap[balls[i]]
         IN b = Ball(b.x, b.y, i - 1, ballRadius)

\* C6: a ball active in an update() whose exit check sees y > mazeHeight is marked
\* exited by it; an exited ball's score never changes again, and the total grows by
\* exactly the scores of the balls marked in this update
C6_MarkedOnceScoredOnce ==
  [][ lastOp' = "update"
      => ( /\ \A id \in Current :
                (~paused /\ heap[id].active /\ heap'[id].y > mazeHeight) => heap'[id].exited
           /\ \A id \in Current :
                heap[id].exited => heap'[id].exited /\ heap'[id].score = heap[id].score
           /\ score' = score + SumSeq([ i \in 1 .. Len(balls) |->
                                          IF ~heap[balls[i]].exited /\ heap'[balls[i]].exited
                                          THEN heap'[balls[i]].score ELSE 0 ]) ) ]_vars

\* C6 witness: an exited, still active ball was advanced by a later update(): the
\* position it had one frame ago was already below the maze
C6_SimulatedAfterExitWitness ==
  /\ lastOp = "update"
  /\ \E id \in Current :
       /\ heap[id].exited /\ heap[id].active /\ heap[id].score > 0
       /\ Len(heap[id].trail) >= 2
       /\ heap[id].trail[2][2] > mazeHeight
       /\ heap[id].trail[1][2] > heap[id].trail[2][2]

\* the zones whose closed span holds x
ZonesHolding(x) ==
  { k \in 1 .. Len(exitZones) : exitZones[k].x <= x /\ x <= exitZones[k].x + exitZones[k].width }

\* C7: the ball marked exited gets the score of the first zone, in list order, whose
\* closed span holds its x, and 50 when none does
C7_FirstZoneOrFifty ==
  [][ lastOp' = "update"
      => \A id \in Current :
           (~heap[id].exited /\ heap'[id].exited) =>
             LET Z == ZonesHolding(heap'[id].x)
             IN heap'[id].score =
                  IF Z = {} THEN 50
                  ELSE exitZones[CHOOSE k \in Z : \A j \in Z : k <= j].score ]_vars

\* C7 witness: a ball left the maze exactly on the border shared by the first two
\* zones and holds the first zone's score, not the second's
C7_SharedBorderWitness ==
  /\ lastOp = "update"
  /\ Len(exitZones) >= 2
  /\ exitZones[1].score # exitZones[2].score
  /\ \E id \in Current :
       /\ heap[id].exited
       /\ Len(heap[id].trail) = 1
       /\ heap[id].x = exitZones[2].x
       /\ heap[id].x = exitZones[1].x + exitZones[1].width
       /\ heap[id].score = exitZones[1].score

\* C8 (as stated, its safety part): a ball whose deactivation is pending is exited and
\* active; the notification is delivered for a ball that is now inactive, once, and
\* getScore() at that moment includes the ball's score
C8_NotifiedAfterScored ==
  /\ \A id \in Range(timers) : heap[id].exited /\ heap[id].active
  /\ \A e \in ExitEvents :
       /\ ~heap[e.ball].active
       /\ Cardinality({ j \in 1 .. Len(events) : events[j] = e }) = 1
       /\ e.ball \in Current
       /\ e.engineScore = ExitedScoreSum

\* C9: allBallsExited() is true exactly when getActiveBallCount() is 0, and so it is
\* false while some ball is marked exited but not yet deactivated
C9_AllExitedIffNoneActive ==
  /\ allBallsExited <=> (getActiveBallCount = 0)
  /\ (\E id \in Current : heap[id].exited /\ heap[id].active) => ~allBallsExited

\* C9 witness: every ball is marked exited, one is still active, and
\* allBallsExited() answers false
C9_DelayWitness ==
  /\ balls # << >>
  /\ \A id \in Current : heap[id].exited
  /\ \E id \in Current : heap[id].active
  /\ ~allBallsExited

Within(b, wall, d) ==
  LET closestX == Max(wall.x, Min(b.x, wall.x + wall.width))
      closestY == Max(wall.y, Min(b.y, wall.y + wall.height))
      distX    == b.x - closestX
      distY    == b.y - closestY
  IN Abs(distX) < d /\ Abs(distY) < d /\ distX * distX + distY * distY < d * d

\* C11 (as stated): after update() no active ball overlaps a wall: the distance from
\* its centre to the closest point of every WallRect is at least its radius (to within
\* two units, the rounding of the push-out)
C11_NoWallPenetration ==
  lastOp = "update" =>
    \A id \in Current : \A k \in 1 .. Len(walls) :
      heap[id].active => ~Within(heap[id], walls[k], heap[id].radius - 2)

\* init has been called
Initialised == maze.grid # << >>

\* the cells << x, y >> of the grid
Cells(m) == (0 .. m.cols - 1) \X (0 .. m.rows - 1)

\* the cells that are not Wall: Path, Entry and Exit
OpenCells(m) == { c \in Cells(m) : m.grid[c[2]][c[1]] # WALL }

\* the cells that share a side with c
Neighbours(c) ==
  { << c[1] + 1, c[2] >>, << c[1] - 1, c[2] >>, << c[1], c[2] + 1 >>, << c[1], c[2] - 1 >> }

\* one more step of a walk through open cells: the open cells next to the frontier
\* that no shorter walk reaches
floodStep(st, open) ==
  LET next == ((UNION { Neighbours(c) : c \in st.frontier }) \cap open) \ st.visited
  IN [ visited |-> st.visited \cup next, frontier |-> next ]

RECURSIVE floodSteps(_, _, _)
floodSteps(st, open, n) ==
  IF n > 1
  THEN CHOOSE r \in { floodSteps(half, open, n - n \div 2) :
                        half \in { floodSteps(st, open, n \div 2) } } : TRUE
  ELSE IF n = 1 THEN floodStep(st, open) ELSE st

\* the cells a walk from cell c through open cells of m reaches
ReachableFrom(m, c) ==
  floodSteps([ visited |-> {c}, frontier |-> {c} ], OpenCells(m), Cardinality(OpenCells(m))).visited

EntryCell(m) == << m.cols \div 2, 0 >>

\* C12: after init every Path, Entry and Exit cell is reachable from the Entry cell
\* through cells that are not Wall, and the cell directly above every Exit is not Wall
C12_AllReachableFromEntry ==
  Initialised =>
    /\ maze.grid[0][maze.cols \div 2] = ENTRY
    /\ OpenCells(maze) = ReachableFrom(maze, EntryCell(maze))
    /\ \A x \in 0 .. maze.cols - 1 :
         maze.grid[maze.rows - 1][x] = EXIT => maze.grid[maze.rows - 2][x] # WALL

\* C12 witness: a grid whose centre column is even, so that the Entry joins the maze
\* only through the cell init opens below it, with an Exit under a cell between two
\* rooms; the walk from the Entry reaches that Exit
C12_EvenCentreWitness ==
  /\ Initialised
  /\ (maze.cols \div 2) % 2 = 0
  /\ \E x \in 0 .. maze.cols - 1 :
       /\ x % 2 = 0
       /\ maze.grid[maze.rows - 1][x] = EXIT
       /\ << x, maze.rows - 1 >> \in ReachableFrom(maze, EntryCell(maze))

\* the number of pairs of open cells that share a side
Adjacencies(m) ==
  LET open == OpenCells(m)
  IN Cardinality({ c \in open : << c[1] + 1, c[2] >> \in open })
     + Cardinality({ c \in open : << c[1], c[2] + 1 >> \in open })

\* C13 (as stated): the maze init makes is perfect: the open cells, all joined to the
\* Entry (C12), have no cycle, that is one adjacency fewer than cells; and every
\* interior cell with odd x and odd y is Path
C13_PerfectMaze ==
  Initialised =>
    /\ Adjacencies(maze) = Cardinality(OpenCells(maze)) - 1
    /\ \A c \in Cells(maze) :
         (c[1] % 2 = 1 /\ c[2] % 2 = 1) => maze.grid[c[2]][c[1]] = PATH

\* C14: after init there are exactly five exit zones; zone i (from 0) spans from
\* i * width / 5 to (i + 1) * width / 5, so that the zones tile the width of the maze
\* without gap or overlap; their scores from left to right are 500, 100, 1000, 0, 250
C14_FiveZonesTileTheWidth ==
  Initialised =>
    LET z == maze.exitZones
        w == maze.width * Scale
    IN /\ Len(z) = 5
       /\ \A i \in 1 .. 5 : 5 * z[i].x = (i - 1) * w /\ 5 * (z[i].x + z[i].width) = i * w
       /\ z[1].x = 0
       /\ \A i \in 1 .. 4 : z[i].x + z[i].width = z[i + 1].x
       /\ z[5].x + z[5].width = w
       /\ << z[1].score, z[2].score, z[3].score, z[4].score, z[5].score >>
            = << 500, 100, 1000, 0, 250 >>

\* C14 witness: a maze whose width is not a multiple of five pixels and whose second
\* exit was carved with its centre left of the second zone, in the first; the second
\* zone scores 100 all the same
C14_ExitOutsideItsZoneWitness ==
  /\ Initialised
  /\ maze.width % 5 # 0
  /\ Len(maze.exitZones) = 5
  /\ (2 * maze.exitColumns[2] + 1) * maze.cellSize * Scale < 2 * maze.exitZones[2].x
  /\ maze.exitZones[2].score = 100

\* the generation steps run on a generator that has made no maze before, given only
\* cols, rows and the seed
GenerationRun(cols, rows, seed) ==
  CHOOSE r \in
    { createEntryAndExits(carved) :
        carved \in { generateMaze([NewMazeGenerator EXCEPT !.cols = cols, !.rows = rows,
                                                           !.seed = seed]) } } : TRUE

\* C15: generation is deterministic in the seed: whatever maze, level and cell size
\* the generator held before, the grid and the exit columns init leaves are those of
\* a run of _generateMaze and _createEntryAndExits on a new generator with the same
\* cols, rows and seed
C15_DeterministicInSeed ==
  Initialised =>
    /\ maze.grid = GenerationRun(maze.cols, maze.rows, mazeArgs.now).grid
    /\ maze.exitColumns = GenerationRun(maze.cols, maze.rows, mazeArgs.now).exitColumns

\* C15 witness: a maze made at a cell size above the minimum with a seed later than
\* the first, after random draws have moved the generator's seed; the run on a new
\* generator ends with the same seed
C15_SecondRunWitness ==
  /\ Initialised
  /\ maze.cellSize > minCellSize
  /\ Later(mazeArgs.now, Epoch)
  /\ maze.seed # mazeArgs.now
  /\ maze.seed = GenerationRun(maze.cols, maze.rows, mazeArgs.now).seed

\* C16 (as stated): after init the maze is no larger than the available area:
\* cols * cellSize <= canvasWidth - marginLeft - marginRight and
\* rows * cellSize <= canvasHeight - marginTop - marginBottom - exitZoneHeight
C16_MazeFitsAvailableArea ==
  Initialised =>
    /\ maze.cols * maze.cellSize <= availableWidth(mazeArgs.canvasWidth, mazeArgs.canvasHeight)
    /\ maze.rows * maze.cellSize <= availableHeight(mazeArgs.canvasWidth, mazeArgs.canvasHeight)

\* the last init call took the minimum-cell-size fallback
FallbackTaken ==
  fittingCellSize(mazeArgs.level, mazeArgs.canvasWidth, mazeArgs.canvasHeight) < minCellSize

\* C17 (as stated): after init cols <= 21 and rows <= 25, and the fallback only
\* shrinks the grid: cols and rows are at most the level's target counts
C17_GridWithinCaps ==
  Initialised =>
    /\ maze.cols <= 21
    /\ maze.rows <= 25
    /\ FallbackTaken => /\ maze.cols <= levelCols(mazeArgs.level)
                        /\ maze.rows <= levelRows(mazeArgs.level)

\* C18: after init cols and rows are odd and at least 9, and cellSize is at least 16
C18_OddAtLeastNine ==
  Initialised =>
    /\ maze.cols % 2 = 1 /\ maze.rows % 2 = 1
    /\ maze.cols >= 9 /\ maze.rows >= 9
    /\ maze.cellSize >= 16

\* C18 witness: a canvas smaller than the margins (the available height is negative)
\* got the 9 x 9 grid of 16 px cells, and a canvas with room for an even number
\* of 16 px columns got an odd number of them
C18_SmallerThanMarginsWitness ==
  /\ Initialised
  /\ FallbackTaken
  /\ \/ /\ availableHeight(mazeArgs.canvasWidth, mazeArgs.canvasHeight) < 0
        /\ maze.cols = 9 /\ maze.rows = 9 /\ maze.cellSize = 16
     \/ /\ (availableWidth(mazeArgs.canvasWidth, mazeArgs.canvasHeight) \div 16) % 2 = 0
        /\ maze.cols > 9 /\ maze.cols % 2 = 1

\* the columns of the Exit cells in the last row of m
ExitCells(m) == { x \in 0 .. m.cols - 1 : m.grid[m.rows - 1][x] = EXIT }

\* C19 (as stated): after init the last row holds exactly five Exit cells in five
\* distinct columns: the five nearest-path searches never select a column twice
C19_FiveDistinctExits ==
  Initialised =>
    /\ Cardinality(ExitCells(maze)) = 5
    /\ Len(maze.exitColumns) = 5
    /\ \A i, j \in 1 .. Len(maze.exitColumns) :
         i # j => maze.exitColumns[i] # maze.exitColumns[j]

\* C20: after init every border cell is Wall, except the one Entry of row 0, at
\* column floor(cols / 2), and the Exit cells of the last row; the leftmost and the
\* rightmost column are Wall from top to bottom
C20_BorderIsWall ==
  Initialised =>
    /\ \A x \in 0 .. maze.cols - 1 :
         /\ maze.grid[0][x] = (IF x = maze.cols \div 2 THEN ENTRY ELSE WALL)
         /\ maze.grid[maze.rows - 1][x] \in { WALL, EXIT }
    /\ \A y \in 0 .. maze.rows - 1 :
         /\ maze.grid[y][0] = WALL
         /\ maze.grid[y][maze.cols - 1] = WALL

\* C20 witness: on the 9-column grid the first and the last target column, 0 and 8,
\* are border columns; the Exits went to columns 1 and 7, and the rooms in the four
\* corners next to the border are carved
C20_BorderTargetWitness ==
  /\ Initialised
  /\ maze.cols = 9
  /\ (1 * maze.cols) \div 10 = 0 /\ (9 * maze.cols) \div 10 = maze.cols - 1
  /\ maze.exitColumns[1] = 1 /\ maze.exitColumns[5] = maze.cols - 2
  /\ maze.grid[maze.rows - 1][0] = WALL /\ maze.grid[maze.rows - 1][maze.cols - 1] = WALL
  /\ \A x \in { 1, maze.cols - 2 }, y \in { 1, maze.rows - 2 } : maze.grid[y][x] = PATH

\* C30: nextInt(min, max) returns an integer r with min <= r < max, and shuffle
\* returns a permutation of the four directions: no entry is undefined, none is lost
C30_NextIntBelowMax ==
  /\ rng.op = "nextInt" => rng.value \in rng.min .. rng.max - 1
  /\ rng.op = "shuffle" =>
       /\ Len(rng.value) = Len(DIRECTIONS)
       /\ \A d \in Range(DIRECTIONS) : Cardinality({ i \in 1 .. Len(rng.value) : rng.value[i] = d }) = 1

\* C30 witness: nextInt called on the seed whose successor in exact arithmetic is
\* 0x7fffffff, for which next() would return 1: the doubles round the sum to the
\* next multiple of 32, the seed becomes 0 and nextInt returns min
C30_RoundedAwayWitness ==
  /\ rng.op = "nextInt"
  /\ rng.from = ToLimbs(230538014)
  /\ Low31(rng.seed) = 0
  /\ rng.value = rng.min

\* zone k of m and the cell of column x share more than a border: the cell spans
\* x * cellSize to (x + 1) * cellSize pixels
Overlaps(m, k, x) ==
  /\ x * m.cellSize * Scale < m.exitZones[k].x + m.exitZones[k].width
  /\ (x + 1) * m.cellSize * Scale > m.exitZones[k].x

\* C27: after init each of the five ExitZones overlaps an Exit cell of the last row;
\* the 1000-point zone is one of them
C27_EveryZoneHasAnExit ==
  Initialised =>
    /\ \A k \in 1 .. 5 : \E x \in ExitCells(maze) : Overlaps(maze, k, x)
    /\ \E k \in 1 .. 5 :
         /\ maze.exitZones[k].score = 1000
         /\ \E x \in ExitCells(maze) : Overlaps(maze, k, x)

\* C27 witness: two searches chose column 1 and the grid has four Exit cells; the
\* second zone has no Exit cell of its own and overlaps the one of column 1
C27_SharedExitWitness ==
  /\ Initialised
  /\ Cardinality(ExitCells(maze)) = 4
  /\ maze.exitColumns[1] = 1 /\ maze.exitColumns[2] = 1
  /\ Overlaps(maze, 2, 1)
  /\ \A x \in ExitCells(maze) \ { 1 } : ~Overlaps(maze, 2, x)

\* C23 (as stated): whenever the Game is in state PLAYING the engine's pause flag is
\* false, whatever the player did with the start, pause, resume, restart and
\* next-level controls.
C23_PlayingMeansRunning == game.state = "playing" => ~paused

\* C26: in a game, where the engine is initialised with what MazeGenerator.init made,
\* every ball marked exited lies in the span of some ExitZone and has the score of
\* a zone, one of 500, 100, 1000, 0 and 250: the fallback of 50 points is never
\* given.
C26_NoFallbackScore ==
  \A id \in Current :
    heap[id].exited =>
      /\ ZonesHolding(heap[id].x) # { }
      /\ heap[id].score \in Range(exitScores)
      /\ heap[id].score # MissScore

\* C26 witness: the ball of the level left through the first exit, inside the first
\* zone only, and got its 500 points
C26_FirstZoneWitness ==
  \E id \in Current :
    /\ heap[id].exited
    /\ ZonesHolding(heap[id].x) = { 1 }
    /\ heap[id].score = exitScores[1]
    /\ game.state = "playing"

\* C25: the completion of a level is handled once.  The frame of state PLAYING after
\* whose update all balls are inactive sets the state to LEVEL_COMPLETE when the
\* score of the level is at least 1000 and to LEVEL_FAILED otherwise, and adds that
\* score to totalScore; totalScore changes in no other step but the start of a game;
\* and once the state is LEVEL_COMPLETE or LEVEL_FAILED no field of the Game changes
\* until a level is started.
C25_CompletedOnce ==
  [][ /\ (lastOp' = "update" /\ allBallsExited')
         => /\ game'.state = IF score' >= 1000 THEN "level_complete" ELSE "level_failed"
            /\ game'.score = score'
            /\ game'.totalScore = game.totalScore + score'
      /\ game'.totalScore # game.totalScore
         => \/ lastOp' = "update" /\ game.state = "playing" /\ allBallsExited'
            \/ game.state = "menu" /\ mazeArgs' # mazeArgs
      /\ (game.state \in { "level_complete", "level_failed" } /\ mazeArgs' = mazeArgs)
         => game' = game ]_vars

\* C25 witness: the level was completed with the 1000 points of the middle exit, in
\* the frame that found its ball inactive
C25_CompleteWitness ==
  /\ lastOp = "update"
  /\ game.state = "level_complete"
  /\ game.score = 1000
  /\ game.totalScore = 1000
  /\ allBallsExited

\* C24: in a game whose loop keeps running, whose timers fire and whose player does
\* not leave it paused for ever, once the ball of the level started at some time is
\* marked exited, the Game comes to state LEVEL_COMPLETE or LEVEL_FAILED unless
\* another level, whose ball is not marked, is started first.
C24_ExitedLeadsToOverlay ==
  (game.state \in { "playing", "paused" } /\ \E id \in Current : heap[id].exited)
  ~> (\/ game.state \in { "level_complete", "level_failed" }
      \/ \A id \in Current : ~heap[id].exited)

\* C24 witness: the timer of the exited ball fired while the game was paused
C24_DeactivatedWhilePausedWitness ==
  /\ lastOp = "deactivate"
  /\ game.state = "paused"
  /\ paused
  /\ timers = << >>
  /\ \E id \in Current : heap[id].exited /\ ~heap[id].active

\* C28: every ball of getBalls() that is inactive is marked exited; a ball becomes
\* inactive only in the timer callback, which follows its being marked exited; and
\* update() changes no field of an inactive ball.
C28_InactiveIsExitedAndFrozen ==
  /\ [](\A id \in Current : ~heap[id].active => heap[id].exited)
  /\ [][ lastOp' \notin { "init", "reset" }
         => \A id \in Current :
              /\ (heap[id].active /\ ~heap'[id].active)
                 => (lastOp' = "deactivate" /\ heap[id].exited)
              /\ (lastOp' = "update" /\ ~heap[id].active)
                 => heap'[id] = heap[id] ]_vars

\* C28 witness: an update() that moved an active ball was made while another ball
\* of the level was inactive
C28_UpdatedBesideInactiveWitness ==
  /\ lastOp = "update"
  /\ ~paused
  /\ \E id \in Current : ~heap[id].active /\ heap[id].exited
  /\ \E id \in Current :
       /\ heap[id].active
       /\ Len(heap[id].trail) >= 2
       /\ heap[id].trail[1] # heap[id].trail[2]

\* C21: after every update() each ball that was active in it has
\* radius <= x <= mazeWidth - radius and y >= radius.  (There is no clamp at the
\* bottom: the witness is a ball below mazeHeight.)
C21_WithinSidesAndTop ==
  [][ lastOp' = "update"
      => \A id \in Current :
           heap[id].active =>
             /\ heap'[id].radius <= heap'[id].x
             /\ heap'[id].x <= mazeWidth - heap'[id].radius
             /\ heap'[id].y >= heap'[id].radius ]_vars

\* C21 witness: an update() has put a ball that was moving right back to the right
\* boundary, below the maze
C21_BelowMazeAtRightEdgeWitness ==
  /\ lastOp = "update"
  /\ \E id \in Current :
       /\ heap[id].active
       /\ heap[id].x = mazeWidth - heap[id].radius
       /\ heap[id].vx < 0
       /\ heap[id].y > mazeHeight
       /\ Len(heap[id].trail) >= 2
       /\ heap[id].trail[2][1] < heap[id].x

\* C29 (as stated): after every update() the trail of each ball that was active in it
\* has at most 6 entries, most recent first, the first of them the position of the
\* ball at the end of the update; and the trail of a ball never gets shorter.
C29_TrailHeadIsPosition ==
  [][ /\ lastOp' = "update"
         => \A id \in Current :
              heap[id].active =>
                LET old == heap[id].trail
                    new == heap'[id].trail
                IN /\ Len(new) <= TrailLength
                   /\ new # << >>
                   /\ new[1] = << heap'[id].x, heap'[id].y >>
                   /\ \/ new = old
                      \/ /\ Len(new) = Min(Len(old) + 1, TrailLength)
                         /\ \A i \in 2 .. Len(new) : new[i] = old[i - 1]
      /\ balls' = balls
         => \A id \in Current : Len(heap'[id].trail) >= Len(heap[id].trail) ]_vars

\* C29 (amended): an update() of a running engine puts the end position of each ball
\* that was active in it in front of its trail and keeps the 6 most recent entries;
\* an update() of a paused engine leaves the trail as it is, empty when the ball has
\* not been updated yet; and the trail of a ball never gets shorter.
C29_TrailAfterRunningUpdate ==
  [][ /\ lastOp' = "update"
         => \A id \in Current :
              heap[id].active =>
                LET old == heap[id].trail
                    new == heap'[id].trail
                IN /\ Len(new) <= TrailLength
                   /\ new # << >> => new[1] = << heap'[id].x, heap'[id].y >>
                   /\ paused => new = old
                   /\ ~paused
                      => /\ new # << >>
                         /\ Len(new) = Min(Len(old) + 1, TrailLength)
                         /\ \A i \in 2 .. Len(new) : new[i] = old[i - 1]
      /\ balls' = balls
         => \A id \in Current : Len(heap'[id].trail) >= Len(heap[id].trail) ]_vars

\* C29 witness: the update() that made the trail of a moving ball full has dropped
\* its oldest entry
C29_FullTrailWitness ==
  /\ lastOp = "update"
  /\ ~paused
  /\ frames > TrailLength
  /\ \E id \in Current :
       /\ heap[id].active
       /\ Len(heap[id].trail) = TrailLength
       /\ heap[id].trail[1] = << heap[id].x, heap[id].y >>
       /\ heap[id].trail[1] # heap[id].trail[2]

\* where update() puts ball b before it looks at the walls
Moved(b) == integrate(applyThreshold(clampVelocity(applyForces(b, gravity))))

\* update() of ball b registers a wall collision: the ball as moved is closer than
\* its radius to some wall
Collides(b) == handleWallCollisions(Moved(b), b.x, b.y).ball # Moved(b)

\* a ball that falls straight: no horizontal velocity and not rising, as a ball is
\* from its start at rest to its first wall collision, under gravity (0, 0)
FallsStraight(b) == b.vx = 0 /\ b.vy >= 0

\* C22 (as stated): while the external gravity is (0, 0), every update() in which no
\* wall collision is registered moves a ball that falls straight strictly down, y
\* increasing and x unchanged, and leaves it falling straight: so it is from the
\* start at rest to the first collision.
C22_FallsUntilFirstCollision ==
  [][ (lastOp' = "update" /\ gravity = << 0, 0 >>)
      => \A id \in Current :
           (FallsStraight(heap[id]) /\ ~Collides(heap[id]))
           => /\ heap'[id].y > heap[id].y
              /\ heap'[id].x = heap[id].x
              /\ FallsStraight(heap'[id]) ]_vars

\* C22 (amended): the same for the updates of a running engine and the balls that are
\* active in them.
C22_FallsWhileRunningAndActive ==
  [][ (lastOp' = "update" /\ gravity = << 0, 0 >> /\ ~paused)
      => \A id \in Current :
           (heap[id].active /\ FallsStraight(heap[id]) /\ ~Collides(heap[id]))
           => /\ heap'[id].y > heap[id].y
              /\ heap'[id].x = heap[id].x
              /\ FallsStraight(heap'[id]) ]_vars

\* C22 witness: the ball fell from rest, straight down update after update, and the
\* last update registered its first wall collision, which left it on top of a wall
C22_FirstCollisionWitness ==
  /\ lastOp = "update"
  /\ gravity = << 0, 0 >>
  /\ \E id \in Current :
       LET t == heap[id].trail
       IN /\ Len(t) >= 4
          /\ t[1] = << heap[id].x, heap[id].y >>
          /\ \A i \in 1 .. Len(t) - 1 : t[i][2] > t[i + 1][2] /\ t[i][1] = t[i + 1][1]
          /\ \E k \in 1 .. Len(walls) :
               /\ walls[k].y = heap[id].y + heap[id].radius
               /\ walls[k].x <= heap[id].x
               /\ heap[id].x <= walls[k].x + walls[k].width

====
